---- MODULE Spec2Model ----
\* Model of the lexical scanner in src/src/tokenizer.rs: the Tokenizer's
\* cursor, line counter and token list, one action per arm of the tokenize
\* loop, and the TokenType operator predicates and conversions.
EXTENDS Integers, Sequences, FiniteSets, TLC

VARIABLES ptr, position, line, tokens, outcome, operand, converted

vars == <<ptr, position, line, tokens, outcome, operand, converted>>

----------------------------------------------------------------------------
\* Bounds of the explored input space.

\* every input over Chars of at most this length is explored
MaxLen == 2
\* every input over CoreChars of at most this length is explored
MaxCoreLen == 4

\* i32::MAX, the largest value Value::Int can hold
MaxI32 == 2147483647

----------------------------------------------------------------------------
\* Character classes (char::is_alphabetic, char::is_ascii_digit restricted to
\* the characters that occur in the explored inputs).

Letters == {"a", "e", "i", "m", "n", "r", "t", "u", "x"}
Digits == {"0", "1", "2", "3", "4", "5", "6", "7", "8", "9"}

is_alphabetic(c) == c \in Letters
is_ascii_digit(c) == c \in Digits

DigitValue(c) ==
    CASE c = "0" -> 0 [] c = "1" -> 1 [] c = "2" -> 2 [] c = "3" -> 3
      [] c = "4" -> 4 [] c = "5" -> 5 [] c = "6" -> 6 [] c = "7" -> 7
      [] c = "8" -> 8 [] c = "9" -> 9

\* Vec::get with a 0-based index: None past the end
None == "None"
ptr_get(p, i) == IF i < Len(p) THEN p[i + 1] ELSE None

\* &ptr[from..to] collected into a String
slice(p, from, to) == SubSeq(p, from + 1, to)

----------------------------------------------------------------------------
\* TokenType, Keyword, Value

Keyword(k) == [tag |-> "Keyword", keyword |-> k]
Identifier(s) == [tag |-> "Identifier", name |-> s]
LiteralInt(n) == [tag |-> "Literal", value |-> [tag |-> "Int", int |-> n]]
LiteralChar(n) == [tag |-> "Literal", value |-> [tag |-> "Char", int |-> n]]
Unit(t) == [tag |-> t]

OpenParentheses == Unit("OpenParentheses")
CloseParentheses == Unit("CloseParentheses")
OpenBrace == Unit("OpenBrace")
CloseBrace == Unit("CloseBrace")
Semicolon == Unit("Semicolon")
Whitespace == Unit("Whitespace")
Minus == Unit("Minus")
Bitwise == Unit("Bitwise")
LogicalNegation == Unit("LogicalNegation")
Addition == Unit("Addition")
Multiplication == Unit("Multiplication")
Division == Unit("Division")

\* Token::new(token, position, line)
Token_new(token, pos, ln) == [line |-> ln, position |-> pos, token |-> token]

\* the keyword table handed to tokenize
KeywordMap ==
    (<<"r", "e", "t", "u", "r", "n">> :> "Return") @@ (<<"i", "n", "t">> :> "Int")

----------------------------------------------------------------------------
\* Tokenizer

\* add_token with the position and line arguments of Token::new exchanged
add_token_swapped(toks, token, pos, ln) == Append(toks, Token_new(token, ln, pos))

\* self.tokens.push(Token::new(token, self.position, self.line))
add_token(toks, token, pos, ln) == Append(toks, Token_new(token, pos, ln))

\* get_char_type that does not treat carriage return as NewLine
get_char_type_lf_only(p, pos, advance_from_pos) ==
    LET c == ptr_get(p, pos + advance_from_pos) IN
    IF c = None THEN [type |-> None]
    ELSE IF is_alphabetic(c) \/ c = "_" THEN [type |-> "Alphabetic"]
    ELSE IF is_ascii_digit(c) THEN [type |-> "Numeric"]
    ELSE IF c = " " \/ c = "\t" THEN [type |-> "Whitespace"]
    ELSE IF c = "\n" THEN [type |-> "NewLine"]
    ELSE [type |-> "NonAlphabetic", char |-> c]

\* get_char_type(advance_from_pos) on cursor pos
get_char_type(p, pos, advance_from_pos) ==
    LET c == ptr_get(p, pos + advance_from_pos) IN
    IF c = None THEN [type |-> None]
    ELSE IF is_alphabetic(c) \/ c = "_" THEN [type |-> "Alphabetic"]
    ELSE IF is_ascii_digit(c) THEN [type |-> "Numeric"]
    ELSE IF c = " " \/ c = "\t" THEN [type |-> "Whitespace"]
    ELSE IF c = "\n" \/ c = "\r" THEN [type |-> "NewLine"]
    ELSE [type |-> "NonAlphabetic", char |-> c]

\* the length loop of get_identifier continuing on letters and underscore only
RECURSIVE identifier_len_no_digit(_, _, _)
identifier_len_no_digit(p, pos, len) ==
    LET c == ptr_get(p, pos + len) IN
    IF c # None /\ (is_alphabetic(c) \/ c = "_")
    THEN identifier_len_no_digit(p, pos, len + 1)
    ELSE len

\* the length loop of get_identifier
RECURSIVE identifier_len(_, _, _)
identifier_len(p, pos, len) ==
    LET c == ptr_get(p, pos + len) IN
    IF c # None /\ (is_alphabetic(c) \/ is_ascii_digit(c) \/ c = "_")
    THEN identifier_len(p, pos, len + 1)
    ELSE len

\* get_literal without its length loop
literal_len_no_loop(p, pos, len) == len

\* the length loop of get_literal
RECURSIVE literal_len(_, _, _)
literal_len(p, pos, len) ==
    LET c == ptr_get(p, pos + len) IN
    IF c # None /\ is_ascii_digit(c)
    THEN literal_len(p, pos, len + 1)
    ELSE len

\* str::parse::<i32> on a run of ASCII digits: checked multiply by ten and
\* checked add of each digit; Err on overflow
Ok(n) == [ok |-> TRUE, int |-> n]
Err == [ok |-> FALSE, int |-> 0]
RECURSIVE parse_from(_, _, _)
parse_from(s, i, acc) ==
    IF i > Len(s) THEN Ok(acc)
    ELSE IF acc > MaxI32 \div 10 THEN Err
    ELSE IF acc * 10 > MaxI32 - DigitValue(s[i]) THEN Err
    ELSE parse_from(s, i + 1, acc * 10 + DigitValue(s[i]))

parse(s) == parse_from(s, 1, 0)

\* the symbol match with the '/' arm left out
symbol_token_no_division(c) ==
    CASE c = "(" -> OpenParentheses
      [] c = ")" -> CloseParentheses
      [] c = "{" -> OpenBrace
      [] c = "}" -> CloseBrace
      [] c = ";" -> Semicolon
      [] c = "~" -> Bitwise
      [] c = "!" -> LogicalNegation
      [] c = "-" -> Minus
      [] c = "*" -> Multiplication
      [] c = "+" -> Addition
      [] OTHER -> Unit(None)

\* the symbol match whose default arm adds a Whitespace token
symbol_token_default_token(c) ==
    CASE c = "(" -> OpenParentheses
      [] c = ")" -> CloseParentheses
      [] c = "{" -> OpenBrace
      [] c = "}" -> CloseBrace
      [] c = ";" -> Semicolon
      [] c = "~" -> Bitwise
      [] c = "!" -> LogicalNegation
      [] c = "-" -> Minus
      [] c = "*" -> Multiplication
      [] c = "/" -> Division
      [] c = "+" -> Addition
      [] OTHER -> Whitespace

\* the symbol match of the NonAlphabetic arm: the token to add, or None
symbol_token(c) ==
    CASE c = "(" -> OpenParentheses
      [] c = ")" -> CloseParentheses
      [] c = "{" -> OpenBrace
      [] c = "}" -> CloseBrace
      [] c = ";" -> Semicolon
      [] c = "~" -> Bitwise
      [] c = "!" -> LogicalNegation
      [] c = "-" -> Minus
      [] c = "*" -> Multiplication
      [] c = "/" -> Division
      [] c = "+" -> Addition
      [] OTHER -> Unit(None)

----------------------------------------------------------------------------
\* Inputs

Chars == {"i", "n", "t", "_", "0", "9", " ", "\t", "\n", "\r",
          "(", ")", "{", "}", ";", "~", "!", "-", "*", "/", "+", "@", "#"}
CoreChars == {"i", "n", "t", "0", " ", "\n", ";", "@"}

SeqsUpTo(S, n) == UNION {[1..k -> S] : k \in 0..n}

NamedInputs ==
    { <<" "," ","x">>,
      <<"\r","\n","x">>,
      <<"r","e","t","u","r","n","0">>,
      <<"r","e","t","u","r","n",";">>,
      <<"i","n","t"," ","m","a","i","n","(",")","{","r","e","t","u","r","n"," ","0",";","}">>,
      <<"9","9","9","9","9","9","9","9","9","9","9">>,
      <<"x","\n","2","1","4","7","4","8","3","6","4","8">>,
      <<"2","1","4","7","4","8","3","6","4","7">>,
      <<"0","0","0","0","0","0","0","0","0","0","0","7">> }

Inputs == SeqsUpTo(Chars, MaxLen) \cup SeqsUpTo(CoreChars, MaxCoreLen) \cup NamedInputs

----------------------------------------------------------------------------
\* Tokenizer::new and the tokenize loop

\* result of a call: not called yet, returned a value, or panicked
NotCalled == [called |-> FALSE]
Returned(v) == [called |-> TRUE, panicked |-> FALSE, ret |-> v]
Panicked(msg) == [called |-> TRUE, panicked |-> TRUE, ret |-> msg]

NoOperand == Unit("NoOperand")
NoResult == [un |-> NotCalled, bi |-> NotCalled, is_un |-> NotCalled, is_bi |-> NotCalled]

Init ==
    /\ ptr \in Inputs
    /\ position = 0
    /\ line = 0
    /\ tokens = <<>>
    /\ outcome = "scanning"
    /\ operand = NoOperand
    /\ converted = NoResult

tokenize_Whitespace ==
    /\ outcome = "scanning"
    /\ get_char_type(ptr, position, 0).type = "Whitespace"
    /\ position' = position + 1
    /\ UNCHANGED <<ptr, line, tokens, outcome, operand, converted>>

\* the NewLine arm without self.line += 1
tokenize_NewLine_no_count ==
    /\ outcome = "scanning"
    /\ get_char_type(ptr, position, 0).type = "NewLine"
    /\ position' = position + 1
    /\ UNCHANGED <<ptr, line, tokens, outcome, operand, converted>>

tokenize_NewLine ==
    /\ outcome = "scanning"
    /\ get_char_type(ptr, position, 0).type = "NewLine"
    /\ position' = position + 1
    /\ line' = line + 1
    /\ UNCHANGED <<ptr, tokens, outcome, operand, converted>>

get_identifier ==
    /\ outcome = "scanning"
    /\ get_char_type(ptr, position, 0).type = "Alphabetic"
    /\ LET len == identifier_len(ptr, position, 1)
           value == slice(ptr, position, position + len)
       IN /\ tokens' = IF value \in DOMAIN KeywordMap
                       THEN add_token(tokens, Keyword(KeywordMap[value]), position, line)
                       ELSE add_token(tokens, Identifier(value), position, line)
          /\ position' = position + len
    /\ UNCHANGED <<ptr, line, outcome, operand, converted>>

get_literal ==
    /\ outcome = "scanning"
    /\ get_char_type(ptr, position, 0).type = "Numeric"
    /\ LET len == literal_len(ptr, position, 1)
           value == slice(ptr, position, position + len)
           parsed == parse(value)
       IN IF ~parsed.ok
          THEN \* expect("Error parsing literal value") panics
               /\ outcome' = "panic"
               /\ UNCHANGED <<position, tokens>>
          ELSE /\ tokens' = add_token(tokens, LiteralInt(parsed.int), position, line)
               /\ position' = position + len
               /\ UNCHANGED outcome
    /\ UNCHANGED <<ptr, line, operand, converted>>

\* the NonAlphabetic arm with self.position += 1 inside the symbol arms only
tokenize_NonAlphabetic_arm_advance ==
    /\ outcome = "scanning"
    /\ LET ch == get_char_type(ptr, position, 0) IN
       /\ ch.type = "NonAlphabetic"
       /\ LET tok == symbol_token(ch.char) IN
          IF tok = Unit(None)
          THEN UNCHANGED <<tokens, position>>
          ELSE /\ tokens' = add_token(tokens, tok, position, line)
               /\ position' = position + 1
    /\ UNCHANGED <<ptr, line, outcome, operand, converted>>

tokenize_NonAlphabetic ==
    /\ outcome = "scanning"
    /\ LET ch == get_char_type(ptr, position, 0) IN
       /\ ch.type = "NonAlphabetic"
       /\ LET tok == symbol_token(ch.char) IN
          tokens' = IF tok = Unit(None) THEN tokens
                    ELSE add_token(tokens, tok, position, line)
    /\ position' = position + 1
    /\ UNCHANGED <<ptr, line, outcome, operand, converted>>

tokenize_exit ==
    /\ outcome = "scanning"
    /\ get_char_type(ptr, position, 0).type = None
    /\ outcome' = "done"
    /\ UNCHANGED <<ptr, position, line, tokens, operand, converted>>

Next ==
    \/ tokenize_Whitespace
    \/ tokenize_NewLine
    \/ get_identifier
    \/ get_literal
    \/ tokenize_NonAlphabetic
    \/ tokenize_exit

Spec == Init /\ [][Next]_vars

----------------------------------------------------------------------------
\* impl TokenType: operator predicates and conversions

to_unary_operator(t) ==
    CASE t = Minus -> Returned("Negation")
      [] t = Bitwise -> Returned("Bitwise")
      [] t = LogicalNegation -> Returned("LogicalNegation")
      [] OTHER -> Panicked("critical error")

to_binary_operator(t) ==
    CASE t = Minus -> Returned("Minus")
      [] t = Addition -> Returned("Addition")
      [] t = Multiplication -> Returned("Multiplication")
      [] t = Division -> Returned("Division")
      [] OTHER -> Panicked("critical error")

is_unary_operator(t) == t = Minus \/ t = Bitwise \/ t = LogicalNegation

\* is_binary_operator that forgets Minus
is_binary_operator_no_minus(t) ==
    t = Addition \/ t = Multiplication \/ t = Division

is_binary_operator(t) ==
    t = Minus \/ t = Addition \/ t = Multiplication \/ t = Division

\* largest integer and byte payload of the explored Literal operands
MaxOperandValue == 2
\* longest name of the explored Identifier operands
MaxOperandName == 2

TokenTypes ==
    {Keyword(k) : k \in {"Return", "Int"}}
    \cup {Identifier(n) : n \in SeqsUpTo({"x", "_"}, MaxOperandName) \ {<<>>}}
    \cup {LiteralInt(n) : n \in 0..MaxOperandValue}
    \cup {LiteralChar(n) : n \in 0..MaxOperandValue}
    \cup {OpenParentheses, CloseParentheses, OpenBrace, CloseBrace, Semicolon,
          Whitespace, Minus, Bitwise, LogicalNegation, Addition,
          Multiplication, Division}

InitOps ==
    /\ ptr = <<>>
    /\ position = 0
    /\ line = 0
    /\ tokens = <<>>
    /\ outcome = "done"
    /\ operand \in TokenTypes
    /\ converted = NoResult

call_to_unary_operator ==
    /\ ~converted.un.called
    /\ converted' = [converted EXCEPT !.un = to_unary_operator(operand)]
    /\ UNCHANGED <<ptr, position, line, tokens, outcome, operand>>

call_to_binary_operator ==
    /\ ~converted.bi.called
    /\ converted' = [converted EXCEPT !.bi = to_binary_operator(operand)]
    /\ UNCHANGED <<ptr, position, line, tokens, outcome, operand>>

call_is_unary_operator ==
    /\ ~converted.is_un.called
    /\ converted' = [converted EXCEPT !.is_un = Returned(is_unary_operator(operand))]
    /\ UNCHANGED <<ptr, position, line, tokens, outcome, operand>>

call_is_binary_operator ==
    /\ ~converted.is_bi.called
    /\ converted' = [converted EXCEPT !.is_bi = Returned(is_binary_operator(operand))]
    /\ UNCHANGED <<ptr, position, line, tokens, outcome, operand>>

NextOps ==
    \/ call_to_unary_operator
    \/ call_to_binary_operator
    \/ call_is_unary_operator
    \/ call_is_binary_operator

SpecOps == InitOps /\ [][NextOps]_vars

\* tokenize is one synchronous loop: an enabled iteration is always taken
FairSpec == Spec /\ WF_vars(Next)

----------------------------------------------------------------------------
\* Vocabulary of the properties, stated on the input text itself.

NewlineChars == {"\n", "\r"}
BlankChars == {" ", "\t"}
IdentStartChars == Letters \cup {"_"}
IdentChars == Letters \cup Digits \cup {"_"}
SymbolTag ==
    ("(" :> "OpenParentheses") @@ (")" :> "CloseParentheses")
    @@ ("{" :> "OpenBrace") @@ ("}" :> "CloseBrace") @@ (";" :> "Semicolon")
    @@ ("~" :> "Bitwise") @@ ("!" :> "LogicalNegation") @@ ("-" :> "Minus")
    @@ ("*" :> "Multiplication") @@ ("/" :> "Division") @@ ("+" :> "Addition")
SymbolChars == DOMAIN SymbolTag
UnknownChar(c) ==
    c \notin IdentChars \cup BlankChars \cup NewlineChars \cup SymbolChars

\* character at 0-based offset i
CharAt(i) == ptr[i + 1]
AtChar(S) == outcome = "scanning" /\ position < Len(ptr) /\ CharAt(position) \in S

\* number of newline characters among offsets from (inclusive) .. to (exclusive)
NewlinesIn(from, to) ==
    Cardinality({i \in from..(to - 1) : CharAt(i) \in NewlineChars})

\* offset just past the longest run of characters of S that starts at offset from
RunEnd(from, S) ==
    CHOOSE j \in from..Len(ptr) :
        /\ \A i \in from..(j - 1) : CharAt(i) \in S
        /\ j = Len(ptr) \/ CharAt(j) \notin S

\* the digit run starting at offset from, without its leading zeros
SignificantDigits(from) ==
    LET to == RunEnd(from, Digits)
        nz == {i \in from..(to - 1) : CharAt(i) # "0"}
    IN IF nz = {} THEN <<>>
       ELSE slice(ptr, CHOOSE i \in nz : \A k \in nz : i <= k, to)

MaxI32Digits == <<2, 1, 4, 7, 4, 8, 3, 6, 4, 7>>

\* the digit run starting at offset from has a value above i32::MAX
RunOverflows(from) ==
    LET d == SignificantDigits(from) IN
    \/ Len(d) > Len(MaxI32Digits)
    \/ /\ Len(d) = Len(MaxI32Digits)
       /\ \E i \in 1..Len(d) :
            /\ DigitValue(d[i]) > MaxI32Digits[i]
            /\ \A k \in 1..(i - 1) : DigitValue(d[k]) = MaxI32Digits[k]

\* offsets at which a maximal digit run of the input starts
DigitRunStarts ==
    {i \in 0..(Len(ptr) - 1) :
        CharAt(i) \in Digits /\ (i = 0 \/ CharAt(i - 1) \notin Digits)}

NoOverflowingRun == \A i \in DigitRunStarts : ~RunOverflows(i)

Last(seq) == seq[Len(seq)]
Appended == Len(tokens') = Len(tokens) + 1 /\ SubSeq(tokens', 1, Len(tokens)) = tokens

KeywordSpelling(k) == CHOOSE w \in DOMAIN KeywordMap : KeywordMap[w] = k

\* the spelling a token stands for, as far as the token itself records it
LexemeLen(t) ==
    CASE t.token.tag = "Identifier" -> Len(t.token.name)
      [] t.token.tag = "Keyword" -> Len(KeywordSpelling(t.token.keyword))
      [] t.token.tag = "Literal" -> RunEnd(t.position, Digits) - t.position
      [] OTHER -> 1

\* the text at the token's recorded position is the token's lexeme
LexemeStartsAt(t) ==
    /\ t.position < Len(ptr)
    /\ CASE t.token.tag = "Identifier" ->
              /\ CharAt(t.position) \in IdentStartChars
              /\ slice(ptr, t.position, t.position + Len(t.token.name)) = t.token.name
         [] t.token.tag = "Keyword" ->
              slice(ptr, t.position, t.position + LexemeLen(t))
                  = KeywordSpelling(t.token.keyword)
         [] t.token.tag = "Literal" ->
              /\ CharAt(t.position) \in Digits
              /\ t.position = 0 \/ CharAt(t.position - 1) \notin IdentChars
         [] OTHER ->
              /\ CharAt(t.position) \in SymbolChars
              /\ SymbolTag[CharAt(t.position)] = t.token.tag

----------------------------------------------------------------------------
\* C1: a digit run whose value does not fit an i32 ends the scan in a
\* recoverable literal-overflow error carrying the line and position of the
\* run's first digit; the scan never crashes and never emits a wrapped value.
C1_OverflowIsRecoverableError ==
    /\ outcome # "panic"
    /\ (outcome # "scanning" /\ position < Len(ptr)
            /\ CharAt(position) \in Digits /\ RunOverflows(position))
        => outcome = "literal_overflow"

\* C2: every token is stamped with the offset of the first character of its
\* lexeme (the cursor before the lexeme's length is added) and with the line
\* counter of that moment; "  x" yields Identifier("x") at position 2.
C2_TokenStampedAtLexemeStart ==
    /\ [][tokens' # tokens =>
            /\ Appended
            /\ Last(tokens').position = position
            /\ Last(tokens').line = line
            /\ LexemeStartsAt(Last(tokens'))
            /\ position' = position + LexemeLen(Last(tokens'))]_vars
    /\ [](\A k \in 1..Len(tokens) : LexemeStartsAt(tokens[k]))
    /\ [](outcome = "done" /\ ptr = <<" ", " ", "x">>
            => tokens = <<Token_new(Identifier(<<"x">>), 2, 0)>>)

C2_Witness ==
    /\ outcome = "done"
    /\ ptr = <<" ", " ", "x">>
    /\ Len(tokens) = 1
    /\ tokens[1].position = 2

\* C3: at a letter or underscore the recognizer emits exactly one token whose
\* lexeme is the longest run of letters, digits and underscores from the
\* cursor: Keyword(k) if the whole run is a keyword, Identifier(run) otherwise;
\* "return0" is the single token Identifier("return0").
C3_MaximalMunch ==
    /\ [][AtChar(IdentStartChars) =>
            LET end == RunEnd(position, IdentChars)
                run == slice(ptr, position, end)
            IN /\ Appended
               /\ position' = end
               /\ Last(tokens').token =
                     IF run \in DOMAIN KeywordMap
                     THEN Keyword(KeywordMap[run]) ELSE Identifier(run)]_vars
    /\ [](outcome = "done" /\ ptr = <<"r", "e", "t", "u", "r", "n", "0">>
            => tokens = <<Token_new(Identifier(ptr), 0, 0)>>)

C3_Witness ==
    /\ outcome = "done"
    /\ ptr = <<"r", "e", "t", "u", "r", "n", "0">>
    /\ Len(tokens) = 1
    /\ tokens[1].token.tag = "Identifier"

\* C4: an input of spaces, tabs, line feeds and carriage returns only (the
\* empty input included) finishes with no token and with line equal to the
\* number of newline characters.
OnlyBlank == \A i \in 0..(Len(ptr) - 1) : CharAt(i) \in BlankChars \cup NewlineChars

C4_BlankInput ==
    (outcome = "done" /\ OnlyBlank)
        => tokens = <<>> /\ line = NewlinesIn(0, Len(ptr))

C4_Witness ==
    /\ outcome = "done"
    /\ OnlyBlank
    /\ \E i \in 0..(Len(ptr) - 1) : CharAt(i) = "\r"
    /\ \E i \in 0..(Len(ptr) - 1) : CharAt(i) \in BlankChars
    /\ line = NewlinesIn(0, Len(ptr))

\* C5: on a completed scan the lexeme ranges of the tokens are disjoint and
\* strictly increasing in list order, and every occurrence of one of the
\* eleven symbol characters has exactly one token, at its offset, with the
\* tag the symbol table gives it.
C5_NoOverlapNoSkippedSymbol ==
    outcome = "done" =>
        /\ \A k \in 1..(Len(tokens) - 1) :
              tokens[k].position + LexemeLen(tokens[k]) <= tokens[k + 1].position
        /\ \A k \in 1..Len(tokens) :
              /\ LexemeLen(tokens[k]) >= 1
              /\ tokens[k].position + LexemeLen(tokens[k]) <= Len(ptr)
        /\ \A i \in 0..(Len(ptr) - 1) :
              CharAt(i) \in SymbolChars =>
                 /\ Cardinality({k \in 1..Len(tokens) : tokens[k].position = i}) = 1
                 /\ \A k \in 1..Len(tokens) :
                       /\ tokens[k].position = i => tokens[k].token = Unit(SymbolTag[CharAt(i)])
                       /\ tokens[k].position < i =>
                             tokens[k].position + LexemeLen(tokens[k]) <= i

C5_Witness ==
    /\ outcome = "done"
    /\ Len(tokens) >= 3
    /\ \E k \in 1..Len(tokens) : tokens[k].token = Semicolon
    /\ \E k \in 1..Len(tokens) : tokens[k].token.tag \in {"Identifier", "Keyword", "Literal"}

\* C6: to_unary_operator returns an operator exactly when is_unary_operator
\* holds (Minus, Bitwise, LogicalNegation, mapped to Negation, Bitwise,
\* LogicalNegation) and panics otherwise; likewise to_binary_operator and
\* is_binary_operator for Minus, Addition, Multiplication, Division.
UnaryOf ==
    ("Minus" :> "Negation") @@ ("Bitwise" :> "Bitwise")
    @@ ("LogicalNegation" :> "LogicalNegation")
BinaryOf ==
    ("Minus" :> "Minus") @@ ("Addition" :> "Addition")
    @@ ("Multiplication" :> "Multiplication") @@ ("Division" :> "Division")

C6_ConversionMatchesPredicate ==
    /\ converted.un.called =>
          /\ ~converted.un.panicked <=> operand.tag \in DOMAIN UnaryOf
          /\ ~converted.un.panicked => converted.un.ret = UnaryOf[operand.tag]
          /\ converted.is_un.called =>
                (converted.is_un.ret <=> ~converted.un.panicked)
    /\ converted.is_un.called =>
          (converted.is_un.ret <=> operand.tag \in DOMAIN UnaryOf)
    /\ converted.bi.called =>
          /\ ~converted.bi.panicked <=> operand.tag \in DOMAIN BinaryOf
          /\ ~converted.bi.panicked => converted.bi.ret = BinaryOf[operand.tag]
          /\ converted.is_bi.called =>
                (converted.is_bi.ret <=> ~converted.bi.panicked)
    /\ converted.is_bi.called =>
          (converted.is_bi.ret <=> operand.tag \in DOMAIN BinaryOf)

C6_Witness ==
    /\ operand = Minus
    /\ converted.un = Returned("Negation")
    /\ converted.bi = Returned("Minus")
    /\ converted.is_un.called /\ converted.is_un.ret
    /\ converted.is_bi.called /\ converted.is_bi.ret

\* C7: over every iteration the cursor never decreases and never exceeds the
\* input length; recognizing an identifier, keyword or literal advances it by
\* the lexeme's length, and a blank, newline, symbol or unrecognized character
\* advances it by 1.
C7_CursorAdvance ==
    /\ [][/\ position' >= position
          /\ position' <= Len(ptr)
          /\ AtChar(IdentStartChars) => position' = RunEnd(position, IdentChars)
          /\ (AtChar(Digits) /\ tokens' # tokens)
                => position' = RunEnd(position, Digits)
          /\ (outcome = "scanning" /\ position < Len(ptr)
                  /\ CharAt(position) \notin IdentStartChars \cup Digits)
                => position' = position + 1]_vars
    /\ [](position <= Len(ptr))

C7_Witness ==
    /\ outcome = "done"
    /\ position = Len(ptr)
    /\ Len(tokens) = 2
    /\ tokens[1].token.tag = "Literal" /\ tokens[2].position - tokens[1].position >= 3
    /\ tokens[2].token.tag = "Semicolon"

\* C8: line never decreases, grows by exactly 1 for each line feed or carriage
\* return the cursor passes and by nothing else; at the start of every
\* iteration, and in every token, line is the number of newline characters
\* before the cursor position.
C8_LineCounter ==
    /\ [][/\ line' >= line
          /\ position' >= position
          /\ line' = line + NewlinesIn(position, position')]_vars
    /\ [](line = NewlinesIn(0, position))
    /\ [](\A k \in 1..Len(tokens) :
             tokens[k].line = NewlinesIn(0, tokens[k].position))

C8_Witness ==
    /\ outcome = "done"
    /\ line = 2
    /\ ptr[1] = "\r" /\ ptr[2] = "\n"
    /\ Len(tokens) = 1
    /\ tokens[1].line = 2

\* C9: on an input with no digit run overflowing an i32, tokenize terminates:
\* every iteration advances the cursor by at least 1, the loop exits exactly
\* when the classifier reports absent, and at exit the cursor equals the
\* input length.
C9_Termination ==
    /\ NoOverflowingRun ~> outcome = "done"
    /\ [][(outcome = "scanning" /\ outcome' = "scanning")
              => position' >= position + 1]_vars
    /\ [][outcome = "scanning" =>
              (outcome' = "done" <=> get_char_type(ptr, position, 0).type = None)]_vars
    /\ [][outcome' = "panic" => ~NoOverflowingRun]_vars
    /\ [](outcome = "done" => position = Len(ptr))

C9_Witness ==
    /\ outcome = "done"
    /\ NoOverflowingRun
    /\ position = Len(ptr)
    /\ Len(ptr) = 4
    /\ \E i \in 0..(Len(ptr) - 1) : UnknownChar(CharAt(i))

\* C10: a character that is no blank, newline, letter, underscore, digit or
\* mapped symbol is skipped silently: its iteration advances the cursor by 1,
\* appends no token, leaves line and the earlier tokens unchanged, raises no
\* error, and the scan goes on.
C10_UnknownCharSkipped ==
    [][(outcome = "scanning" /\ position < Len(ptr) /\ UnknownChar(CharAt(position)))
          => /\ position' = position + 1
             /\ tokens' = tokens
             /\ line' = line
             /\ outcome' = "scanning"]_vars

C10_Witness ==
    /\ outcome = "done"
    /\ Len(ptr) = 3
    /\ UnknownChar(ptr[2])
    /\ Len(tokens) = 2
    /\ tokens[2].position = 2

====
